---------------------------- MODULE Spec2Model ----------------------------
(***************************************************************************)
(* Model of export_to_s3.py: main() walks COLLECTIONS in order and, for    *)
(* each collection, fetches its documents, builds a DataFrame, drops _id,  *)
(* sanitizes text columns (clean_dataframe), casts the schema columns      *)
(* (cast_types), writes one JSON object per row to <name>.json             *)
(* (export_to_ndjson), uploads the file and removes it.  Any exception of  *)
(* an iteration is caught by `except Exception` and printed.               *)
(*                                                                         *)
(* Text is a sequence of character codes.  A cell of a document or of a    *)
(* DataFrame is a record [t, n, e, s]:                                     *)
(*   t = "int"    the integer n                                            *)
(*   t = "float"  the finite float n * 10^(-e), normalised (e = 0 or n     *)
(*                not a multiple of 10)                                    *)
(*   t = "nan"    float NaN            t = "none"  Python None             *)
(*   t = "bool"   n = 1 (True) or 0    t = "str"   the text s              *)
(*   t = "dt"     a naive datetime, s = <<year, month, day, hour, minute,  *)
(*                second>>             t = "nat"   pandas NaT              *)
(*   t = "NA"     pandas.NA            t = "oid"   an ObjectId numbered n  *)
(*   t = "absent" the key is missing from the document                     *)
(* The pandas operations are modelled with the behaviour of pandas 1.x/2.x *)
(* (object dtype for text columns).                                        *)
(***************************************************************************)
EXTENDS Integers, Sequences, FiniteSets, TLC

\* Largest number of documents a collection holds in the model.
MaxDocs == 2

---------------------------------------------------------------------------
(* Cells *)

Mk(t, n, e, s) == [t |-> t, n |-> n, e |-> e, s |-> s]
IntV(n)        == Mk("int", n, 0, <<>>)
FloatV(n, e)   == Mk("float", n, e, <<>>)
NaN            == Mk("nan", 0, 0, <<>>)
NoneV          == Mk("none", 0, 0, <<>>)
BoolV(b)       == Mk("bool", IF b THEN 1 ELSE 0, 0, <<>>)
StrV(s)        == Mk("str", 0, 0, s)
DtV(y, mo, d, h, mi, sec) == Mk("dt", 0, 0, <<y, mo, d, h, mi, sec>>)
NaT            == Mk("nat", 0, 0, <<>>)
NA             == Mk("NA", 0, 0, <<>>)
OidV(n)        == Mk("oid", n, 0, <<>>)
Absent         == Mk("absent", 0, 0, <<>>)

\* f(v) with v bound to the value of x, which is evaluated once
Bind(f(_), x) == CHOOSE r \in {f(v) : v \in {x}} : TRUE

\* f applied to every element of a sequence
MapSeq(f(_), s) == Bind(LAMBDA v : [i \in 1..Len(v) |-> f(v[i])], s)

---------------------------------------------------------------------------
(* Character codes used by the program's regular expressions and by the   *)
(* text forms of values.                                                   *)

CharTab   == 9
CharLF    == 10
CharCR    == 13
CharSpace == 32
CharTilde == 126
CharPlus  == 43
CharMinus == 45
CharDot   == 46
CharZero  == 48
CharNine  == 57
CharColon == 58

IsDigit(c) == c >= CharZero /\ c <= CharNine

RECURSIVE NatDigits(_)
\* The decimal digits of a natural number.
NatDigits(n) ==
  IF n < 10 THEN <<CharZero + n>>
  ELSE NatDigits(n \div 10) \o <<CharZero + (n % 10)>>

\* str(int)
IntStr(n) == IF n < 0 THEN <<CharMinus>> \o NatDigits(-n) ELSE NatDigits(n)

RECURSIVE Pow10(_)
Pow10(e) == IF e = 0 THEN 1 ELSE 10 * Pow10(e - 1)

\* digits left-padded with "0" to width w
PadLeft(ds, w) ==
  IF Len(ds) >= w THEN ds
  ELSE [i \in 1..w |-> IF i <= w - Len(ds) THEN CharZero ELSE ds[i - (w - Len(ds))]]

\* str(float) of the finite float n * 10^(-e): Python prints the shortest
\* decimal form, with ".0" for an integral value.
FloatStr(n, e) ==
  LET a    == IF n < 0 THEN -n ELSE n
      sign == IF n < 0 THEN <<CharMinus>> ELSE <<>>
  IN  IF e = 0 THEN sign \o NatDigits(a) \o <<CharDot, CharZero>>
      ELSE sign \o NatDigits(a \div Pow10(e)) \o <<CharDot>>
                \o PadLeft(NatDigits(a % Pow10(e)), e)

\* "%Y-%m-%d" of a datetime <<y, mo, d, h, mi, s>>
StrfDate(dt) ==
  PadLeft(NatDigits(dt[1]), 4) \o <<CharMinus>> \o PadLeft(NatDigits(dt[2]), 2)
    \o <<CharMinus>> \o PadLeft(NatDigits(dt[3]), 2)

\* str(datetime.datetime): "YYYY-MM-DD HH:MM:SS"
DatetimeStr(dt) ==
  StrfDate(dt) \o <<CharSpace>> \o PadLeft(NatDigits(dt[4]), 2) \o <<CharColon>>
    \o PadLeft(NatDigits(dt[5]), 2) \o <<CharColon>> \o PadLeft(NatDigits(dt[6]), 2)

\* The texts "nan", "None", "True", "False", "NaT"
TxtNan   == <<110, 97, 110>>
TxtNone  == <<78, 111, 110, 101>>
TxtTrue  == <<84, 114, 117, 101>>
TxtFalse == <<70, 97, 108, 115, 101>>
TxtNaT   == <<78, 97, 84>>

\* str(x) of a cell, as Series.astype(str) computes it element by element
PyStr(c) ==
  CASE c.t = "str"   -> c.s
    [] c.t = "int"   -> IntStr(c.n)
    [] c.t = "float" -> FloatStr(c.n, c.e)
    [] c.t = "nan"   -> TxtNan
    [] c.t = "none"  -> TxtNone
    [] c.t = "bool"  -> IF c.n = 1 THEN TxtTrue ELSE TxtFalse
    [] c.t = "dt"    -> DatetimeStr(c.s)
    [] c.t = "nat"   -> TxtNaT

---------------------------------------------------------------------------
(* clean_dataframe: the two regular-expression replacements *)

\* .str.replace(r"[\r\n\t]", " ", regex=True) on one text
ReplaceControl(s) ==
  MapSeq(LAMBDA c : IF c \in {CharCR, CharLF, CharTab} THEN CharSpace ELSE c, s)

\* A sanitizer without the second replacement
KeepNonPrintable(s) == s

\* .str.replace(r"[^\x20-\x7E]", "", regex=True) on one text
DeleteNonPrintable(s) == SelectSeq(s, LAMBDA c : c >= CharSpace /\ c <= CharTilde)

\* One element of an object or bool column through line 90-95
CleanCell(c) == StrV(DeleteNonPrintable(ReplaceControl(PyStr(c))))

---------------------------------------------------------------------------
(* pd.to_numeric(errors="coerce") on one text.  The decimal literals      *)
(* [sign] digits [. digits] and [sign] . digits are numbers; every other   *)
(* text of the model's documents is coerced to NaN.                        *)

RECURSIVE DigitsValUpTo(_, _)
\* value of the first k of a sequence of decimal digits
DigitsValUpTo(ds, k) ==
  IF k = 0 THEN 0 ELSE 10 * DigitsValUpTo(ds, k - 1) + (ds[k] - CharZero)

\* value of a sequence of decimal digits
DigitsVal(ds) == DigitsValUpTo(ds, Len(ds))

AllDigits(s) == \A i \in 1..Len(s) : IsDigit(s[i])

RECURSIVE Normalise(_, _)
\* the float n * 10^(-e) without trailing zero decimals
Normalise(n, e) ==
  IF e > 0 /\ n % 10 = 0 THEN Normalise(n \div 10, e - 1) ELSE FloatV(n, e)

\* The number the unsigned decimal literal body denotes, negated when neg;
\* NaN for any other text
ParseUnsigned(body, neg) ==
  LET dots   == {i \in 1..Len(body) : body[i] = CharDot}
      sg(n)  == IF neg THEN -n ELSE n
  IN  IF body = <<>> THEN NaN
      ELSE IF dots = {} THEN
             IF AllDigits(body) THEN IntV(sg(DigitsVal(body))) ELSE NaN
      ELSE IF Cardinality(dots) > 1 THEN NaN
      ELSE LET d    == CHOOSE i \in dots : TRUE
               ip   == SubSeq(body, 1, d - 1)
               fp   == SubSeq(body, d + 1, Len(body))
           IN  IF AllDigits(ip) /\ AllDigits(fp) /\ Len(ip) + Len(fp) > 0
                 THEN Normalise(sg(DigitsVal(ip \o fp)), Len(fp))
                 ELSE NaN

\* The number a decimal literal denotes, NaN for any other text
ParseDecimal(s) ==
  LET signed == Len(s) > 0 /\ s[1] \in {CharPlus, CharMinus}
  IN  Bind(LAMBDA body : ParseUnsigned(body, signed /\ s[1] = CharMinus),
           IF signed THEN SubSeq(s, 2, Len(s)) ELSE s)

\* A to_numeric that reads "," as a thousands separator
ParseNumericThousands(s) == ParseDecimal(SelectSeq(s, LAMBDA c : c # 44))

\* pd.to_numeric(errors="coerce") on one text
ParseNumeric(s) == ParseDecimal(s)

---------------------------------------------------------------------------
(* pd.to_datetime(errors="coerce") on one text: the ISO forms             *)
(* "YYYY-MM-DD" and "YYYY-MM-DD HH:MM:SS"; any other text is coerced to    *)
(* NaT, and so is a date outside the nanosecond Timestamp range.           *)

IsLeap(y) == (y % 4 = 0 /\ y % 100 # 0) \/ y % 400 = 0

DaysIn(y, mo) ==
  IF mo = 2 THEN (IF IsLeap(y) THEN 29 ELSE 28)
  ELSE IF mo \in {4, 6, 9, 11} THEN 30 ELSE 31

\* "ymd", "ymdhms" or "none": the strptime format pandas guesses for a text
GuessFormat(s) ==
  LET ymd(t) == /\ AllDigits(SubSeq(t, 1, 4)) /\ t[5] = CharMinus
                /\ AllDigits(SubSeq(t, 6, 7)) /\ t[8] = CharMinus
                /\ AllDigits(SubSeq(t, 9, 10))
      hms(t) == /\ t[11] = CharSpace
                /\ AllDigits(SubSeq(t, 12, 13)) /\ t[14] = CharColon
                /\ AllDigits(SubSeq(t, 15, 16)) /\ t[17] = CharColon
                /\ AllDigits(SubSeq(t, 18, 19))
  IN  IF Len(s) = 10 /\ ymd(s) THEN "ymd"
      ELSE IF Len(s) = 19 /\ ymd(s) /\ hms(s) THEN "ymdhms"
      ELSE "none"

\* Timestamp.min = 1677-09-21 00:12:43.1, Timestamp.max = 2262-04-11 23:47:16.8
InTimestampRange(dt) ==
  LET day  == dt[1] * 10000 + dt[2] * 100 + dt[3]
      secs == dt[4] * 3600 + dt[5] * 60 + dt[6]
  IN  /\ day > 16770921 \/ (day = 16770921 /\ secs >= 764)
      /\ day < 22620411 \/ (day = 22620411 /\ secs <= 85636)

\* Whether <<y, mo, d, h, mi, s>> is a date and time pandas can hold
ValidDatetime(dt) ==
  /\ dt[2] \in 1..12 /\ dt[3] \in 1..DaysIn(dt[1], dt[2])
  /\ dt[4] < 24 /\ dt[5] < 60 /\ dt[6] < 60
  /\ InTimestampRange(dt)

ParseDatetime(s) ==
  LET fmt == GuessFormat(s)
      num(a, b) == DigitsVal(SubSeq(s, a, b))
  IN  IF fmt = "none" THEN NaT
      ELSE Bind(LAMBDA dt : IF ValidDatetime(dt) THEN Mk("dt", 0, 0, dt) ELSE NaT,
                IF fmt = "ymd" THEN <<num(1, 4), num(6, 7), num(9, 10), 0, 0, 0>>
                ELSE <<num(1, 4), num(6, 7), num(9, 10),
                       num(12, 13), num(15, 16), num(18, 19)>>)

---------------------------------------------------------------------------
(* Static configuration *)

\* COLLECTIONS, in the order the dict is iterated
CollectionOrder == <<"UserTiktokMetrics", "AdminTiktokMetrics">>

Collections == {CollectionOrder[k] : k \in 1..Len(CollectionOrder)}

\* COLLECTIONS[name]: the folder of the collection
Folder(c) ==
  IF c = "UserTiktokMetrics" THEN "user_tiktok_metrics/" ELSE "admin_tiktok_metrics/"

\* The fields both schemas declare, with their "Type"
CommonSchema ==
  << <<"postId", "string">>, <<"datePosted", "date">>, <<"hourPosted", "string">>,
     <<"usernameTiktokAccount", "string">>, <<"postURL", "string">>,
     <<"views", "int">>, <<"likes", "int">>, <<"comments", "int">>,
     <<"saves", "int">>, <<"reposts", "int">>, <<"totalInteractions", "int">>,
     <<"engagement", "float">>, <<"numberHashtags", "int">>,
     <<"hashtags", "string">>, <<"soundId", "string">>, <<"soundURL", "string">>,
     <<"regionPost", "string">>, <<"dateTracking", "date">>,
     <<"timeTracking", "string">> >>

\* SCHEMAS[name]: a sequence of <<Name, Type>>
Schema(c) ==
  IF c = "UserTiktokMetrics" THEN Append(CommonSchema, <<"userId", "int">>)
  ELSE Append(CommonSchema, <<"adminId", "int">>)

\* f"{collection_name}.json"
Filename(c) == c \o ".json"

\* A key that puts every file in the first folder
S3KeyOneFolder(c) == "user_tiktok_metrics/" \o Filename(c)

\* f"{folder}{filename}"
S3Key(c) == Folder(c) \o Filename(c)

---------------------------------------------------------------------------
(* pd.DataFrame(data): a frame is [cols, nrows, dtype, cells]; cols is the *)
(* sequence of column names, nrows the length of the index, dtype and      *)
(* cells are functions on the names.                                       *)

\* The order in which the model's documents list their keys
KeyOrder == <<"_id", "postId", "datePosted", "views", "engagement", "userId", "note">>

Has(doc, k) == k \in DOMAIN doc

\* Column names: the keys of the documents in order of first appearance
FrameColumns(data) ==
  SelectSeq(KeyOrder, LAMBDA k : \E i \in 1..Len(data) : Has(data[i], k))

\* The object array of one column: a missing key is filled with NaN
RawColumn(data, k) ==
  [i \in 1..Len(data) |-> IF Has(data[i], k) THEN data[i][k] ELSE NaN]

\* lib.maybe_convert_objects: the dtype pandas infers for an object array
InferDtype(col) ==
  Bind(LAMBDA kinds :
         IF kinds \subseteq {"int"} THEN "int64"
         ELSE IF kinds \subseteq {"int", "float", "nan", "none"}
                 /\ kinds \cap {"int", "float", "nan"} # {} THEN "float64"
         ELSE IF kinds \subseteq {"bool"} THEN "bool"
         ELSE IF kinds \subseteq {"dt", "nan", "none"} /\ "dt" \in kinds
                THEN "datetime64"
         ELSE "object",
       {col[i].t : i \in 1..Len(col)})

\* One element of an object array stored under the inferred dtype
Store(dtype, c) ==
  CASE dtype = "float64" ->
         IF c.t = "int" THEN FloatV(c.n, 0)
         ELSE IF c.t \in {"nan", "none"} THEN NaN ELSE c
    [] dtype = "datetime64" -> IF c.t \in {"nan", "none"} THEN NaT ELSE c
    [] OTHER -> c

DataFrame(data) ==
  LET cols == FrameColumns(data)
      names == {cols[j] : j \in 1..Len(cols)}
  IN  [cols  |-> cols,
       nrows |-> Len(data),
       dtype |-> [k \in names |-> InferDtype(RawColumn(data, k))],
       cells |-> [k \in names |->
                    Bind(LAMBDA dtype : MapSeq(LAMBDA c : Store(dtype, c),
                                               RawColumn(data, k)),
                         InferDtype(RawColumn(data, k)))]]

ColNames(df) == {df.cols[j] : j \in 1..Len(df.cols)}

\* df.drop(columns=["_id"], inplace=True), guarded by `"_id" in df.columns`
DropId(df) ==
  IF "_id" \in ColNames(df)
    THEN [cols  |-> SelectSeq(df.cols, LAMBDA k : k # "_id"),
          nrows |-> df.nrows,
          dtype |-> [k \in ColNames(df) \ {"_id"} |-> df.dtype[k]],
          cells |-> [k \in ColNames(df) \ {"_id"} |-> df.cells[k]]]
    ELSE df

\* df[k] = column, as an assignment to an existing column
SetColumn(df, k, dtype, col) ==
  [df EXCEPT !.dtype[k] = dtype, !.cells[k] = col]

\* clean_dataframe(df)
clean_dataframe(df) ==
  [cols  |-> df.cols,
   nrows |-> df.nrows,
   dtype |-> [k \in ColNames(df) |->
                IF df.dtype[k] \in {"object", "bool"} THEN "object" ELSE df.dtype[k]],
   cells |-> [k \in ColNames(df) |->
                IF df.dtype[k] \in {"object", "bool"}
                  THEN MapSeq(CleanCell, df.cells[k]) ELSE df.cells[k]]]

---------------------------------------------------------------------------
(* cast_types: the column operations *)

\* pd.to_numeric(column, errors="coerce"): <<dtype, cells>>.  A numeric
\* column is returned as it is; the texts of an object column are parsed,
\* into int64 when every one is an integer and into float64 otherwise.
ToNumeric(dtype, col) ==
  CASE dtype \in {"int64", "float64"} -> <<dtype, col>>
    [] dtype = "object" ->
         Bind(LAMBDA parsed :
                IF \A i \in 1..Len(parsed) : parsed[i].t = "int"
                  THEN <<"int64", parsed>>
                  ELSE <<"float64", MapSeq(LAMBDA c : Store("float64", c), parsed)>>,
              MapSeq(LAMBDA c : ParseNumeric(c.s), col))

\* .astype("Int64") raises TypeError ("cannot safely cast non-equivalent
\* float64 to int64") when a float of the column has a fractional part
AsInt64Raises(dtype, col) ==
  dtype = "float64" /\ \E i \in 1..Len(col) : col[i].t = "float" /\ col[i].e > 0

\* .astype("Int64") of a column it accepts: NaN becomes pandas.NA
AsInt64(col) ==
  MapSeq(LAMBDA c : IF c.t = "nan" THEN NA ELSE IntV(c.n), col)

\* The texts pandas reads as a missing datetime (nat_strings)
NatStrings ==
  {TxtNaT, <<110, 97, 116>>, <<78, 65, 84>>, TxtNan, <<78, 97, 78>>, <<78, 65, 78>>}

IsNullText(s) == s = <<>> \/ s \in NatStrings

\* pd.to_datetime(column, errors="coerce") on the texts of an object column.
\* pandas 2 (strict) guesses the format from the first non-null text and
\* coerces every text of another format to NaT; when it can guess none, and
\* in pandas 1, every text is parsed on its own.
TextsToDatetime(col, strict) ==
  LET live  == {i \in 1..Len(col) : ~IsNullText(col[i].s)}
      first == CHOOSE i \in live : \A j \in live : i <= j
  IN  Bind(LAMBDA fmt :
             MapSeq(LAMBDA c : IF fmt = "none" \/ GuessFormat(c.s) = fmt
                                 THEN ParseDatetime(c.s) ELSE NaT,
                    col),
           IF strict /\ live # {} THEN GuessFormat(col[first].s) ELSE "none")

\* pd.to_datetime(column, errors="coerce"): the cells of a datetime64 column
ToDatetime(dtype, col, strict) ==
  CASE dtype = "datetime64" -> col
    [] dtype = "object" -> TextsToDatetime(col, strict)
    [] dtype = "float64" /\ \A i \in 1..Len(col) : col[i].t = "nan" ->
         MapSeq(LAMBDA c : NaT, col)

\* A strftime with the format "%Y-%m-%d %H:%M:%S"
StrftimeWithTime(col) ==
  MapSeq(LAMBDA c : IF c.t = "nat" THEN NaN ELSE StrV(DatetimeStr(c.s)), col)

\* .dt.strftime("%Y-%m-%d"): NaT gives NaN
Strftime(col) ==
  MapSeq(LAMBDA c : IF c.t = "nat" THEN NaN ELSE StrV(StrfDate(c.s)), col)

\* .astype(str) of an object, int64 or float64 column
AsStr(dtype, col) ==
  CASE dtype \in {"object", "int64", "float64"} ->
         MapSeq(LAMBDA c : StrV(PyStr(c)), col)

\* One iteration of the loop of cast_types for the schema entry <<name, typ>>
\* whose column exists: the frame after the assignment df[name] = ...
CastColumn(df, name, typ, strict) ==
  LET dtype == df.dtype[name]
      col   == df.cells[name]
  IN  CASE typ = "int" ->
             SetColumn(df, name, "Int64", AsInt64(ToNumeric(dtype, col)[2]))
        [] typ = "float" ->
             Bind(LAMBDA num : SetColumn(df, name, num[1], num[2]),
                  ToNumeric(dtype, col))
        [] typ = "date" ->
             SetColumn(df, name, "object", Strftime(ToDatetime(dtype, col, strict)))
        [] OTHER ->
             SetColumn(df, name, "object", AsStr(dtype, col))

\* Whether that iteration raises
CastColumnRaises(df, name, typ) ==
  /\ typ = "int"
  /\ Bind(LAMBDA num : AsInt64Raises(num[1], num[2]),
          ToNumeric(df.dtype[name], df.cells[name]))

RECURSIVE CastFrom(_, _, _, _)
\* The loop of cast_types from schema entry j on: [raised, df].  (The frame
\* after an assignment is bound once, as the value the loop goes on with.)
CastFrom(df, schema, j, strict) ==
  IF j > Len(schema) THEN [raised |-> FALSE, df |-> df]
  ELSE LET name == schema[j][1]
           typ  == schema[j][2]
       IN  IF name \notin ColNames(df) THEN CastFrom(df, schema, j + 1, strict)
           ELSE IF CastColumnRaises(df, name, typ)
                  THEN [raised |-> TRUE, df |-> df]
                  ELSE CHOOSE r \in {CastFrom(d, schema, j + 1, strict) :
                                       d \in {CastColumn(df, name, typ, strict)}} :
                         TRUE

\* cast_types(df, schema)
cast_types(df, schema, strict) == CastFrom(df, schema, 1, strict)

---------------------------------------------------------------------------
(* export_to_ndjson *)

\* row.to_dict() of row i: the members in column order
RowDict(df, i) ==
  [j \in 1..Len(df.cols) |-> [key |-> df.cols[j], val |-> df.cells[df.cols[j]][i]]]

\* json.dumps raises TypeError for pandas.NA, Timestamp and NaT
JsonSerializable(c) == c.t \in {"str", "int", "float", "nan", "none", "bool"}

RowSerializable(df, i) ==
  \A j \in 1..Len(df.cols) : JsonSerializable(df.cells[df.cols[j]][i])

\* The lines of the file when json.dumps accepts every row
AllRows(df) == [i \in 1..df.nrows |-> RowDict(df, i)]

---------------------------------------------------------------------------
(* The documents of the model.  Every document carries _id and at most one *)
(* other key; a collection holds 0..MaxDocs documents over one such key.   *)

\* "12", "1,234", "1.5", "0.5", "x", "n/a", "2023-12-31", "p1"
Txt12       == <<49, 50>>
Txt1Comma234 == <<49, 44, 50, 51, 52>>
Txt1Dot5    == <<49, 46, 53>>
Txt0Dot5    == <<48, 46, 53>>
TxtX        == <<120>>
TxtNA       == <<110, 47, 97>>
TxtDate     == <<50, 48, 50, 51, 45, 49, 50, 45, 51, 49>>
TxtP1       == <<112, 49>>
\* "a<TAB>b" followed by e-acute (U+00E9), "x<LF>y", n-tilde (U+00F1) then "<CR>"
TxtTabbed   == <<97, 9, 98, 233>>
TxtTwoLines == <<120, 10, 121>>
TxtAccent   == <<241, 13>>

DataFields == {"postId", "datePosted", "views", "engagement", "userId", "note"}

Samples(f) ==
  CASE f = "views" ->
         {Absent, IntV(7), FloatV(15, 1), StrV(Txt12), StrV(Txt1Comma234),
          StrV(Txt1Dot5)}
    [] f = "engagement" ->
         {Absent, FloatV(25, 1), IntV(3), StrV(Txt0Dot5), StrV(TxtX)}
    [] f = "datePosted" ->
         {Absent, DtV(2024, 1, 5, 10, 30, 0), StrV(TxtDate), StrV(TxtNA)}
    [] f = "postId" ->
         {Absent, NoneV, StrV(TxtP1), StrV(TxtTabbed), IntV(42), BoolV(TRUE)}
    [] f = "userId" ->
         {Absent, IntV(7), StrV(Txt1Comma234)}
    [] f = "note" ->
         {Absent, StrV(TxtTwoLines), StrV(TxtAccent), DtV(2024, 1, 5, 0, 0, 0)}

\* The document number i holding cell c under key f
Doc(i, f, c) ==
  IF c.t = "absent" THEN [k \in {"_id"} |-> OidV(i)]
  ELSE [k \in {"_id", f} |-> IF k = "_id" THEN OidV(i) ELSE c]

\* The non-empty results of collection.find()
DocLists ==
  UNION {UNION {{[i \in 1..n |-> Doc(i, f, cs[i])] : cs \in [1..n -> Samples(f)]}
                : n \in 1..MaxDocs}
         : f \in DataFields}

---------------------------------------------------------------------------
(* main() *)

VARIABLES
  idx,        \* position of the for loop in CollectionOrder
  pc,         \* the statement main() is at: "fetch", "sanitize", "cast",
              \* "serialize", "upload", "remove", "exit" or "crashed"
  data,       \* the list of documents of the current iteration
  df,         \* the DataFrame of the current iteration
  fs,         \* local files: name -> "absent", "stale" (left by an earlier
              \* run), "partial" or "complete" (written by this run)
  fileLines,  \* the lines export_to_ndjson wrote in the current iteration
  bucket,     \* the keys of the objects uploaded to BUCKET_NAME
  uploads,    \* every call of s3.upload_file: [coll, file, key, ok]
  fetched,    \* per collection: "none", "docs", "empty" or "error"
  steps,      \* per collection: the steps started, in order
  status,     \* per collection: "pending", "skipped", "failed" or "done"
  failedAt,   \* per collection: the step that raised, or "none"
  reported,   \* the collections whose error message was printed
  exitCode    \* -1 while running, then the exit status of the process

vars == <<idx, pc, data, df, fs, fileLines, bucket, uploads, fetched,
          steps, status, failedAt, reported, exitCode>>

NumCollections == Len(CollectionOrder)
Cur == CollectionOrder[idx]
NoFrame == [cols |-> <<>>, nrows |-> 0, dtype |-> <<>>, cells |-> <<>>]

Init ==
  /\ idx = 1
  /\ pc = "fetch"
  /\ data = <<>>
  /\ df = NoFrame
  /\ fs \in [{Filename(c) : c \in Collections} -> {"absent", "stale"}]
  /\ fileLines = <<>>
  /\ bucket = {}
  /\ uploads = <<>>
  /\ fetched = [c \in Collections |-> "none"]
  /\ steps = [c \in Collections |-> <<>>]
  /\ status = [c \in Collections |-> "pending"]
  /\ failedAt = [c \in Collections |-> "none"]
  /\ reported = {}
  /\ exitCode = -1

\* An except clause that catches the errors of the network calls only
CaughtNetworkOnly(step) == step \in {"fetch", "upload"}

\* `except Exception as e` catches the exception a step raises
Caught(step) == TRUE

\* An except clause that leaves the loop
LoopAborted(k) == NumCollections + 1

\* The loop index after the except clause has printed the error
AfterFailure(k) == k + 1

\* An empty collection treated as an error
EmptyAsError == [status |-> "failed", error |-> TRUE]

\* `if not data: print(...); continue`: the outcome of an empty collection
EmptyOutcome == [status |-> "skipped", error |-> FALSE]

\* A removal that leaves the file in place
NotRemoved(files, name) == files

\* os.remove(filename)
Removed(files, name) == [files EXCEPT ![name] = "absent"]

\* The current iteration starts the step named st
Start(st) == steps' = [steps EXCEPT ![Cur] = Append(@, st)]

\* The iteration is over: its locals (data, df) are dead, and the model
\* follows the content of the file of the current iteration only
Forget == data' = <<>> /\ df' = NoFrame /\ fileLines' = <<>>

\* The step st of the current iteration raises: the except clause prints the
\* error and the loop goes on with the next collection
Raise(st) ==
  /\ Forget
  /\ failedAt' = [failedAt EXCEPT ![Cur] = st]
  /\ status' = [status EXCEPT ![Cur] = "failed"]
  /\ IF Caught(st)
       THEN /\ reported' = reported \cup {Cur}
            /\ idx' = AfterFailure(idx)
            /\ pc' = "fetch"
            /\ exitCode' = exitCode
       ELSE /\ reported' = reported
            /\ idx' = idx
            /\ pc' = "crashed"
            /\ exitCode' = 1

\* collection.find() returns at least one document
FetchDocs ==
  /\ pc = "fetch" /\ idx <= NumCollections
  /\ \E d \in DocLists : data' = d
  /\ Start("fetch")
  /\ fetched' = [fetched EXCEPT ![Cur] = "docs"]
  /\ pc' = "sanitize"
  /\ UNCHANGED <<idx, df, fs, fileLines, bucket, uploads, status,
                 failedAt, reported, exitCode>>

\* collection.find() returns nothing: `continue`
FetchEmpty ==
  /\ pc = "fetch" /\ idx <= NumCollections
  /\ data' = <<>>
  /\ Start("fetch")
  /\ fetched' = [fetched EXCEPT ![Cur] = "empty"]
  /\ status' = [status EXCEPT ![Cur] = EmptyOutcome.status]
  /\ reported' = IF EmptyOutcome.error THEN reported \cup {Cur} ELSE reported
  /\ idx' = idx + 1
  /\ pc' = "fetch"
  /\ UNCHANGED <<df, fs, fileLines, bucket, uploads, failedAt, exitCode>>

\* collection.find() raises (connection, authentication, query error)
FetchFail ==
  /\ pc = "fetch" /\ idx <= NumCollections
  /\ Start("fetch")
  /\ fetched' = [fetched EXCEPT ![Cur] = "error"]
  /\ Raise("fetch")
  /\ UNCHANGED <<fs, bucket, uploads>>

\* df = pd.DataFrame(data); drop _id; df = clean_dataframe(df)
Sanitize ==
  /\ pc = "sanitize"
  /\ Start("sanitize")
  /\ \E raw \in {DataFrame(data)} :
       \E dropped \in {DropId(raw)} :
         df' = clean_dataframe(dropped)
  /\ pc' = "cast"
  /\ UNCHANGED <<idx, data, fs, fileLines, bucket, uploads, fetched,
                 status, failedAt, reported, exitCode>>

\* df = cast_types(df, SCHEMAS[collection_name]) returns.  Whether
\* pd.to_datetime guesses one format for the column (strict) depends on the
\* installed pandas; either behaviour may be the one of the call.
CastOk ==
  /\ pc = "cast"
  /\ \E strict \in BOOLEAN :
       \E r \in {cast_types(df, Schema(Cur), strict)} :
         ~r.raised /\ df' = r.df
  /\ Start("cast")
  /\ pc' = "serialize"
  /\ UNCHANGED <<idx, data, fs, fileLines, bucket, uploads, fetched,
                 status, failedAt, reported, exitCode>>

\* cast_types raises
CastRaise ==
  /\ pc = "cast"
  /\ \E strict \in BOOLEAN :
       \E r \in {cast_types(df, Schema(Cur), strict)} : r.raised
  /\ Start("cast")
  /\ Raise("cast")
  /\ UNCHANGED <<fs, bucket, uploads, fetched>>

\* export_to_ndjson(df, filename) writes every row
SerializeOk ==
  /\ pc = "serialize"
  /\ \A i \in 1..df.nrows : RowSerializable(df, i)
  /\ Start("serialize")
  /\ fileLines' = AllRows(df)
  /\ fs' = [fs EXCEPT ![Filename(Cur)] = "complete"]
  /\ pc' = "upload"
  /\ UNCHANGED <<idx, data, df, bucket, uploads, fetched, status,
                 failedAt, reported, exitCode>>

\* json.dumps raises on a row: the rows before it are in the file
SerializeRaise ==
  /\ pc = "serialize"
  /\ \E i \in 1..df.nrows : ~RowSerializable(df, i)
  /\ Start("serialize")
  /\ fs' = [fs EXCEPT ![Filename(Cur)] = "partial"]
  /\ Raise("serialize")
  /\ UNCHANGED <<bucket, uploads, fetched>>

\* open(filename, "w") raises: nothing is written
SerializeOpenFail ==
  /\ pc = "serialize"
  /\ Start("serialize")
  /\ Raise("serialize")
  /\ UNCHANGED <<fs, bucket, uploads, fetched>>

\* s3.upload_file(filename, BUCKET_NAME, s3_key) succeeds
UploadOk ==
  /\ pc = "upload"
  /\ Start("upload")
  /\ uploads' = Append(uploads, [coll |-> Cur, file |-> Filename(Cur),
                                 key |-> S3Key(Cur), ok |-> TRUE])
  /\ bucket' = bucket \cup {S3Key(Cur)}
  /\ pc' = "remove"
  /\ UNCHANGED <<idx, data, df, fs, fileLines, fetched, status,
                 failedAt, reported, exitCode>>

\* s3.upload_file raises
UploadFail ==
  /\ pc = "upload"
  /\ Start("upload")
  /\ uploads' = Append(uploads, [coll |-> Cur, file |-> Filename(Cur),
                                 key |-> S3Key(Cur), ok |-> FALSE])
  /\ Raise("upload")
  /\ UNCHANGED <<fs, bucket, fetched>>

\* os.remove(filename) succeeds: the iteration ends
RemoveOk ==
  /\ pc = "remove"
  /\ Start("remove")
  /\ fs' = Removed(fs, Filename(Cur))
  /\ status' = [status EXCEPT ![Cur] = "done"]
  /\ idx' = idx + 1
  /\ pc' = "fetch"
  /\ Forget
  /\ UNCHANGED <<bucket, uploads, fetched, failedAt, reported, exitCode>>

\* os.remove(filename) raises
RemoveFail ==
  /\ pc = "remove"
  /\ Start("remove")
  /\ Raise("remove")
  /\ UNCHANGED <<fs, bucket, uploads, fetched>>

\* The loop is over: main() returns and the process exits with status 0
Exit ==
  /\ pc = "fetch" /\ idx > NumCollections
  /\ pc' = "exit"
  /\ exitCode' = 0
  /\ UNCHANGED <<idx, data, df, fs, fileLines, bucket, uploads, fetched,
                 steps, status, failedAt, reported>>

Next ==
  \/ FetchEmpty \/ FetchFail \/ FetchDocs
  \/ Sanitize
  \/ CastOk \/ CastRaise
  \/ SerializeOk \/ SerializeRaise \/ SerializeOpenFail
  \/ UploadOk \/ UploadFail
  \/ RemoveOk \/ RemoveFail
  \/ Exit

Spec == Init /\ [][Next]_vars

\* Every blocking call returns or raises, so main() always takes its next step
FairSpec == Spec /\ WF_vars(Next)

---------------------------------------------------------------------------
(* Properties *)

Index(c) == CHOOSE k \in 1..NumCollections : CollectionOrder[k] = c

Finished(c) == status[c] # "pending"

UploadCalls(c) == {k \in 1..Len(uploads) : uploads[k].coll = c}

IsPrefix(s, t) == Len(s) <= Len(t) /\ s = SubSeq(t, 1, Len(s))

StepOrder == <<"fetch", "sanitize", "cast", "serialize", "upload", "remove">>

\* The schema fields of collection c declared with type typ
FieldsOfType(c, typ) ==
  {Schema(c)[j][1] : j \in {k \in 1..Len(Schema(c)) : Schema(c)[k][2] = typ}}

\* cast_types has returned in the current iteration
CastDone == pc \in {"serialize", "upload", "remove"}

\* The file of the current iteration is written in full
FileWritten == pc \in {"upload", "remove"}

PrintableAscii(s) == \A i \in 1..Len(s) : s[i] >= 32 /\ s[i] <= 126

\* A text has a character no decimal literal has
NonNumericText(s) == \E i \in 1..Len(s) : s[i] \notin (48..57) \cup {43, 45, 46}

\* Exactly four digits, "-", two digits, "-", two digits
IsIsoDate(s) ==
  /\ Len(s) = 10
  /\ \A i \in {1, 2, 3, 4, 6, 7, 9, 10} : s[i] \in 48..57
  /\ s[5] = 45 /\ s[8] = 45

\* C1: under fair scheduling every configured collection is eventually
\* fetched, whatever happened to the collections before it.
C1_EveryCollectionAttempted ==
  \A c \in Collections : <>(fetched[c] # "none")

\* C1 witness: the first collection failed and the second one was uploaded
\* and finished.
C1_Witness ==
  /\ status["UserTiktokMetrics"] = "failed"
  /\ status["AdminTiktokMetrics"] = "done"
  /\ S3Key("AdminTiktokMetrics") \in bucket

\* C2: a collection whose fetch returned no document ran the fetch step only,
\* is skipped (not failed), has no error reported, no upload call, no object
\* in the bucket and no file written by this run, and the loop has moved
\* past it.
C2_EmptySkipped ==
  \A c \in Collections :
    fetched[c] = "empty" =>
      /\ status[c] = "skipped"
      /\ steps[c] = <<"fetch">>
      /\ failedAt[c] = "none"
      /\ c \notin reported
      /\ UploadCalls(c) = {}
      /\ S3Key(c) \notin bucket
      /\ fs[Filename(c)] \notin {"partial", "complete"}
      /\ idx > Index(c)

\* C2 witness: the first collection was empty and the second one was still
\* exported.
C2_Witness ==
  /\ fetched["UserTiktokMetrics"] = "empty"
  /\ status["AdminTiktokMetrics"] = "done"

\* C3 (as claimed): cast_types never raises, so no collection fails at the
\* cast step.
C3_CastNeverRaises ==
  \A c \in Collections : failedAt[c] # "cast"

\* C4 (as claimed): in the file written for a collection, line i holds only
\* keys that document i has: a record lacking a field is written without it.
C4_MissingKeyOmitted ==
  FileWritten =>
    \A i \in 1..Len(fileLines) : \A j \in 1..Len(fileLines[i]) :
      Has(data[i], fileLines[i][j].key)

\* C5: once cast_types has returned, every cell of a column the schema
\* declares int is an integer or the null pandas.NA, and a cell whose
\* document value is a non-numeric text such as "1,234" is null.
C5_IntegerOrNull ==
  CastDone =>
    \A f \in FieldsOfType(Cur, "int") \cap ColNames(df) : \A i \in 1..df.nrows :
      /\ df.cells[f][i].t \in {"int", "NA"}
      /\ (Has(data[i], f) /\ data[i][f].t = "str" /\ NonNumericText(data[i][f].s))
           => df.cells[f][i] = NA

\* C5 witness: cast_types returned on a collection with the text "1,234" in
\* the int column views.
C5_Witness ==
  /\ CastDone
  /\ \E i \in 1..Len(data) :
       Has(data[i], "views") /\ data[i]["views"] = StrV(Txt1Comma234)

\* C6: every text value of every line of the file that is uploaded consists
\* of characters 0x20-0x7E only.
C6_TextIsPrintable ==
  FileWritten =>
    \A i \in 1..Len(fileLines) : \A j \in 1..Len(fileLines[i]) :
      fileLines[i][j].val.t = "str" => PrintableAscii(fileLines[i][j].val.s)

\* C6 witness: a file was uploaded for documents with a tab and a non-ASCII
\* character in a schema text field, or a line feed in a field outside the
\* schema.
C6_Witness ==
  /\ pc = "remove"
  /\ \E i \in 1..Len(data) :
       \/ Has(data[i], "postId") /\ data[i]["postId"] = StrV(TxtTabbed)
       \/ Has(data[i], "note") /\ data[i]["note"] = StrV(TxtTwoLines)

C8_ExitsSuccessfully ==
  /\ <>(pc = "exit" /\ exitCode = 0)
  /\ [](pc # "crashed")

\* C8 witness: the process exited with status 0 after both collections
\* failed, one in cast_types and one in os.remove.
C8_Witness ==
  /\ pc = "exit" /\ exitCode = 0
  /\ {failedAt[c] : c \in Collections} = {"cast", "remove"}

\* C9: once cast_types has returned, every cell of a column the schema
\* declares date is null (NaN) or a text of the form YYYY-MM-DD; a datetime
\* of the document gives its own date, and the unparseable "n/a" gives null.
C9_DateOrNull ==
  CastDone =>
    \A f \in FieldsOfType(Cur, "date") \cap ColNames(df) : \A i \in 1..df.nrows :
      LET cell == df.cells[f][i]
      IN  /\ cell.t = "nan" \/ (cell.t = "str" /\ IsIsoDate(cell.s))
          /\ (Has(data[i], f) /\ data[i][f] = StrV(TxtNA)) => cell.t = "nan"
          /\ (Has(data[i], f) /\ data[i][f].t = "dt" /\ cell.t = "str")
               => /\ DigitsVal(SubSeq(cell.s, 1, 4)) = data[i][f].s[1]
                  /\ DigitsVal(SubSeq(cell.s, 6, 7)) = data[i][f].s[2]
                  /\ DigitsVal(SubSeq(cell.s, 9, 10)) = data[i][f].s[3]

\* C9 witness: cast_types returned on a collection whose date column held a
\* datetime with a time of day and the text "n/a".
C9_Witness ==
  /\ CastDone
  /\ \E i, k \in 1..Len(data) :
       /\ Has(data[i], "datePosted") /\ data[i]["datePosted"].t = "dt"
       /\ df.cells["datePosted"][i].t = "str"
       /\ Has(data[k], "datePosted") /\ data[k]["datePosted"] = StrV(TxtNA)

\* The upload calls of a collection: at most one, to the key of the
\* collection, after a fetch with documents and the three steps before it.
UploadsInOrder ==
  \A c \in Collections :
    /\ IsPrefix(steps[c], StepOrder)
    /\ Cardinality(UploadCalls(c)) <= 1
    /\ \A k \in UploadCalls(c) :
         /\ uploads[k].key =
              (IF c = "UserTiktokMetrics"
                 THEN "user_tiktok_metrics/UserTiktokMetrics.json"
                 ELSE "admin_tiktok_metrics/AdminTiktokMetrics.json")
         /\ uploads[k].file = c \o ".json"
         /\ fetched[c] = "docs"
         /\ Len(steps[c]) >= 5
         /\ failedAt[c] \notin {"fetch", "sanitize", "cast", "serialize"}

\* C10: the steps of a collection run in the order fetch, sanitize, cast,
\* serialize, upload, remove, each at most once; an upload is called at most
\* once, to the collection's own key, after the four steps before it; and a
\* collection that is skipped, failed or done runs no further step.
C10_StepsInOrder ==
  /\ []UploadsInOrder
  /\ [][\A c \in Collections :
          Finished(c) => steps'[c] = steps[c] /\ status'[c] = status[c]]_vars

\* C10 witness: the run ended with one upload call that failed and was not
\* repeated.
C10_Witness ==
  /\ pc = "exit"
  /\ \E c \in Collections :
       /\ failedAt[c] = "upload"
       /\ Cardinality(UploadCalls(c)) = 1

=============================================================================
